---- MODULE Spec2Model ----
(***************************************************************************)
(* Model of src/batch.rs: the Batcher that turns display items into one    *)
(* Batch of parallel geometry arrays.                                      *)
(*                                                                         *)
(* f32 values are modelled as exact rationals [n, d] in lowest terms, so   *)
(* every arithmetic expression of the source is evaluated operation by     *)
(* operation, but without f32 rounding.  Au (display_list), the atlas and  *)
(* the colour constants live outside src/batch.rs and are modelled from    *)
(* their interface.                                                        *)
(***************************************************************************)
EXTENDS Integers, Sequences, FiniteSets, TLC

\* Number of add calls explored in one batching pass.
MaxItems == 2

----------------------------------------------------------------------------
(* f32 arithmetic, as exact rationals *)

Abs(i) == IF i < 0 THEN -i ELSE i

RECURSIVE GCD(_, _)
GCD(a, b) == IF b = 0 THEN a ELSE GCD(b, a % b)

Rat(n, d) ==
    LET g == GCD(Abs(n), Abs(d))
        s == IF d < 0 THEN -1 ELSE 1
    IN  [n |-> (s * n) \div g, d |-> (s * d) \div g]

as_f32(i) == Rat(i, 1)
FAdd(a, b) == Rat(a.n * b.d + b.n * a.d, a.d * b.d)
FSub(a, b) == Rat(a.n * b.d - b.n * a.d, a.d * b.d)
FMul(a, b) == Rat(a.n * b.n, a.d * b.d)
FDiv(a, b) == Rat(a.n * b.d, a.d * b.n)
FNeg(a) == [n |-> -a.n, d |-> a.d]

NEAR_DEPTH_VALUE == Rat(-1, 2)
FAR_DEPTH_VALUE == Rat(1, 2)

----------------------------------------------------------------------------
(* euclid geometry *)

Point2D(x, y) == [x |-> x, y |-> y]
Point3D(x, y, z) == [x |-> x, y |-> y, z |-> z]
Size2D(w, h) == [width |-> w, height |-> h]
Rect(origin, size) == [origin |-> origin, size |-> size]

max_x(r) == FAdd(r.origin.x, r.size.width)
max_y(r) == FAdd(r.origin.y, r.size.height)
top_right(r) == Point2D(max_x(r), r.origin.y)
bottom_left(r) == Point2D(r.origin.x, max_y(r))
bottom_right(r) == Point2D(max_x(r), max_y(r))

----------------------------------------------------------------------------
(* display_list: Au and the colour constants *)

AU_PER_PX == 60

from_px(px) == px * AU_PER_PX

\* Integer division of Rust: towards zero.
to_px(au) == IF au >= 0 THEN au \div AU_PER_PX ELSE -((-au) \div AU_PER_PX)

WHITE == "WHITE"
BLACK == "BLACK"
TRANSPARENT_GREEN == "TRANSPARENT_GREEN"

----------------------------------------------------------------------------
(* atlas *)

ATLAS_WIDTH == 4
ATLAS_HEIGHT == 8

Retained == "Retained"

\* The atlas's answer to a request: << place >> when the asset is (now) in
\* the atlas at that pixel rectangle, << >> when it could not be admitted.
AtlasFull == << >>

\* atl maps each resident asset to its pixel rectangle.  A resident asset
\* stays where it is; a new one is rasterized at the place the atlas picks.
require_asset(atl, asset, answer) ==
    IF asset \in DOMAIN atl THEN atl ELSE (asset :> answer[1]) @@ atl

get_atlas_handle(atl, asset) == atl[asset]

----------------------------------------------------------------------------
(* unit conversion *)

to_au_size(s) == Size2D(from_px(s.width), from_px(s.height))

to_normalized_device_position_point(p, context) ==
    Point2D(FMul(FSub(FDiv(as_f32(to_px(p.x)),
                           as_f32(context.render_target_size.width)),
                      Rat(1, 2)),
                 as_f32(2)),
            FMul(FSub(FDiv(as_f32(to_px(p.y)),
                           as_f32(context.render_target_size.height)),
                      Rat(1, 2)),
                 as_f32(2)))

\* Mutant: the height scaled by the target's width.
to_normalized_device_position_size_by_width(s, context) ==
    Size2D(FMul(FDiv(as_f32(to_px(s.width)),
                     as_f32(context.render_target_size.width)),
                as_f32(2)),
           FMul(FDiv(as_f32(to_px(s.height)),
                     as_f32(context.render_target_size.width)),
                as_f32(2)))

to_normalized_device_position_size(s, context) ==
    Size2D(FMul(FDiv(as_f32(to_px(s.width)),
                     as_f32(context.render_target_size.width)),
                as_f32(2)),
           FMul(FDiv(as_f32(to_px(s.height)),
                     as_f32(context.render_target_size.height)),
                as_f32(2)))

\* Mutant: the size converted as a position is (offset by the half).
to_normalized_device_position_rect_size_as_point(r, context) ==
    Rect(to_normalized_device_position_point(r.origin, context),
         Size2D(to_normalized_device_position_point(
                    Point2D(r.size.width, r.size.height), context).x,
                to_normalized_device_position_point(
                    Point2D(r.size.width, r.size.height), context).y))

to_normalized_device_position_rect(r, context) ==
    Rect(to_normalized_device_position_point(r.origin, context),
         to_normalized_device_position_size(r.size, context))

----------------------------------------------------------------------------
(* Batch *)

Repeat(v, count) == [i \in 1..count |-> v]

Batch_new ==
    [vertices |-> << >>, colors |-> << >>, buffer_gamma |-> << >>,
     texture_coords |-> << >>, elements |-> << >>]

add_vertices_for_rect(b, context, rect, z_value) ==
    LET r == to_normalized_device_position_rect(rect, context)
    IN  [b EXCEPT !.vertices = @ \o
            << Point3D(r.origin.x, FNeg(r.origin.y), z_value),
               Point3D(max_x(r), FNeg(r.origin.y), z_value),
               Point3D(r.origin.x, FNeg(max_y(r)), z_value),
               Point3D(max_x(r), FNeg(max_y(r)), z_value) >>]

add_solid_colors(b, count, color) ==
    [b EXCEPT !.colors = @ \o Repeat(color, count)]

add_buffer_gamma(b, count, buffer, gamma) ==
    [b EXCEPT !.buffer_gamma = @ \o Repeat(Point2D(buffer, gamma), count)]

add_dummy_buffer_gamma(b, count) ==
    add_buffer_gamma(b, count, as_f32(0), as_f32(0))

\* Mutant: v divided by the atlas width.
add_texture_coords_for_rect_by_width(b, texture_rect) ==
    LET atlas_width == as_f32(ATLAS_WIDTH)
        r == Rect(Point2D(FDiv(as_f32(texture_rect.origin.x), atlas_width),
                          FDiv(as_f32(texture_rect.origin.y), atlas_width)),
                  Size2D(FDiv(as_f32(texture_rect.size.width), atlas_width),
                         FDiv(as_f32(texture_rect.size.height), atlas_width)))
    IN  [b EXCEPT !.texture_coords = @ \o
            << r.origin, top_right(r), bottom_left(r), bottom_right(r) >>]

add_texture_coords_for_rect(b, texture_rect) ==
    LET atlas_width == as_f32(ATLAS_WIDTH)
        atlas_height == as_f32(ATLAS_HEIGHT)
        r == Rect(Point2D(FDiv(as_f32(texture_rect.origin.x), atlas_width),
                          FDiv(as_f32(texture_rect.origin.y), atlas_height)),
                  Size2D(FDiv(as_f32(texture_rect.size.width), atlas_width),
                         FDiv(as_f32(texture_rect.size.height), atlas_height)))
    IN  [b EXCEPT !.texture_coords = @ \o
            << r.origin, top_right(r), bottom_left(r), bottom_right(r) >>]

\* Mutant: one texture coordinate short.
add_dummy_texture_coords_short(b, count) ==
    [b EXCEPT !.texture_coords = @ \o Repeat(Point2D(as_f32(0), as_f32(0)), count - 1)]

add_dummy_texture_coords(b, count) ==
    [b EXCEPT !.texture_coords = @ \o Repeat(Point2D(as_f32(0), as_f32(0)), count)]

\* The indices are u32.  Both steps run only right after a rectangle's four
\* vertices were appended, so none of the subtractions below wraps, and the
\* vertex counts reached here are far below 2^32.

\* Mutant: the last index taken as the length, not the length less one.
add_elements_for_clockwise_wound_rect_from_len(b) ==
    LET bottom_right_i == Len(b.vertices)
        bottom_left_i == bottom_right_i - 1
        top_right_i == bottom_left_i - 1
        top_left_i == top_right_i - 1
    IN  [b EXCEPT !.elements = @ \o
            << top_left_i, top_right_i, bottom_left_i,
               bottom_left_i, top_right_i, bottom_right_i >>]

add_elements_for_clockwise_wound_rect(b) ==
    LET bottom_right_i == Len(b.vertices) - 1
        bottom_left_i == bottom_right_i - 1
        top_right_i == bottom_left_i - 1
        top_left_i == top_right_i - 1
    IN  [b EXCEPT !.elements = @ \o
            << top_left_i, top_right_i, bottom_left_i,
               bottom_left_i, top_right_i, bottom_right_i >>]

\* Mutant: the clockwise order, copied.
add_elements_for_counterclockwise_wound_rect_copied(b) ==
    LET bottom_right_i == Len(b.vertices) - 1
        bottom_left_i == bottom_right_i - 1
        top_right_i == bottom_left_i - 1
        top_left_i == top_right_i - 1
    IN  [b EXCEPT !.elements = @ \o
            << top_left_i, top_right_i, bottom_left_i,
               bottom_left_i, top_right_i, bottom_right_i >>]

add_elements_for_counterclockwise_wound_rect(b) ==
    LET bottom_right_i == Len(b.vertices) - 1
        bottom_left_i == bottom_right_i - 1
        top_right_i == bottom_left_i - 1
        top_left_i == top_right_i - 1
    IN  [b EXCEPT !.elements = @ \o
            << top_left_i, bottom_left_i, top_right_i,
               top_right_i, bottom_left_i, bottom_right_i >>]

\* Each composite is the source's sequence of primitive calls, innermost
\* first.
clear_clip(b, context) ==
    add_elements_for_clockwise_wound_rect(
        add_dummy_texture_coords(
            add_dummy_buffer_gamma(
                add_solid_colors(
                    add_vertices_for_rect(
                        b, context,
                        Rect(Point2D(from_px(0), from_px(0)),
                             to_au_size(context.render_target_size)),
                        FAR_DEPTH_VALUE),
                    4, WHITE),
                4),
            4))

add_clip(b, context, clipping_region) ==
    add_elements_for_clockwise_wound_rect(
        add_dummy_texture_coords(
            add_dummy_buffer_gamma(
                add_solid_colors(
                    add_vertices_for_rect(b, context, clipping_region.main,
                                          NEAR_DEPTH_VALUE),
                    4, TRANSPARENT_GREEN),
                4),
            4))

\* Mutant: the content quad drawn in the clip's colour.
add_solid_color_rect_marker(b, context, rect, color) ==
    add_elements_for_counterclockwise_wound_rect(
        add_dummy_texture_coords(
            add_dummy_buffer_gamma(
                add_solid_colors(
                    add_vertices_for_rect(b, context, rect, NEAR_DEPTH_VALUE),
                    4, TRANSPARENT_GREEN),
                4),
            4))

add_solid_color_rect(b, context, rect, color) ==
    add_elements_for_counterclockwise_wound_rect(
        add_dummy_texture_coords(
            add_dummy_buffer_gamma(
                add_solid_colors(
                    add_vertices_for_rect(b, context, rect, NEAR_DEPTH_VALUE),
                    4, color),
                4),
            4))

\* The geometry of add_text once the atlas holds the asset at atlas_handle.
add_text_quad(b, context, bounds, atlas_handle) ==
    add_elements_for_counterclockwise_wound_rect(
        add_texture_coords_for_rect(
            add_buffer_gamma(
                add_solid_colors(
                    add_vertices_for_rect(b, context, bounds, NEAR_DEPTH_VALUE),
                    4, BLACK),
                4, Rat(1, 2), Rat(1, 100)),
            atlas_handle))

\* Mutant: the quad is emitted for the place the asset will get, and the
\* request to the atlas is left for later.
add_text_deferred(b, atl, reqs, context, bounds, asset, answer) ==
    IF asset \notin DOMAIN atl /\ answer = AtlasFull
    THEN [batch |-> add_text_quad(b, context, bounds, Rect(Point2D(0, 0), Size2D(0, 0))),
          atlas |-> atl, requests |-> reqs, returned |-> TRUE]
    ELSE [batch |-> add_text_quad(b, context, bounds,
                        get_atlas_handle(require_asset(atl, asset, answer), asset)),
          atlas |-> atl, requests |-> reqs, returned |-> TRUE]

\* The blocking request comes first.  The atlas answers with the place where
\* the asset now is, or not at all (AtlasFull: the request panics, and add
\* with it).  Returns the batch, the atlas, the requests made so far and
\* whether the call returned.
add_text(b, atl, reqs, context, bounds, asset, answer) ==
    IF asset \notin DOMAIN atl /\ answer = AtlasFull
    THEN [batch |-> b, atlas |-> atl,
          requests |-> Append(reqs, [asset |-> asset, priority |-> Retained]),
          returned |-> FALSE]
    ELSE [batch |-> add_text_quad(b, context, bounds,
                        get_atlas_handle(require_asset(atl, asset, answer), asset)),
          atlas |-> require_asset(atl, asset, answer),
          requests |-> Append(reqs, [asset |-> asset, priority |-> Retained]),
          returned |-> TRUE]

----------------------------------------------------------------------------
(* Batcher *)

Batcher_add(b, atl, reqs, context, display_item, answer) ==
    IF display_item.kind = "SolidColor"
    THEN [batch |-> add_solid_color_rect(
                        add_clip(clear_clip(b, context), context,
                                 display_item.base.clip),
                        context, display_item.base.bounds, display_item.color),
          atlas |-> atl, requests |-> reqs, returned |-> TRUE]
    ELSE add_text(add_clip(clear_clip(b, context), context, display_item.base.clip),
                  atl, reqs, context, display_item.base.bounds,
                  display_item.asset, answer)

\* Mutant: an empty batch is dropped.
Batcher_finish_nonempty(b) == IF Len(b.vertices) = 0 THEN << >> ELSE << b >>

Batcher_finish(b) == << b >>

----------------
(* inputs *)

AuRect(x, y, w, h) == Rect(Point2D(x, y), Size2D(w, h))

\* Rectangles in Au (60 to the pixel): one of whole pixels, one whose origin
\* and size are fractions of a pixel, one with a negative origin.
WholePixelRect == AuRect(60, 60, 60, 120)
SubPixelRect == AuRect(30, 90, 30, 90)
NegativeOriginRect == AuRect(-30, 0, 150, 50)

WideClip == [main |-> AuRect(0, 0, 120, 120)]
SubPixelClip == [main |-> AuRect(45, 20, 100, 45)]

Assets == { "glyph_a", "glyph_b" }

\* Places the atlas may give an asset, in atlas pixels.
AtlasPlaces == { AuRect(0, 0, 2, 4), AuRect(2, 4, 1, 3) }

Contexts ==
    { [render_target_size |-> Size2D(2, 4)],
      [render_target_size |-> Size2D(4, 3)] }

SolidColorItem(bounds, clip, color) ==
    [kind |-> "SolidColor", base |-> [bounds |-> bounds, clip |-> clip], color |-> color]

TextItem(bounds, clip, asset) ==
    [kind |-> "Text", base |-> [bounds |-> bounds, clip |-> clip], asset |-> asset]

DisplayItems ==
    { SolidColorItem(WholePixelRect, WideClip, "RED"),
      SolidColorItem(SubPixelRect, SubPixelClip, "BLUE"),
      SolidColorItem(NegativeOriginRect, WideClip, "RED"),
      TextItem(SubPixelRect, WideClip, "glyph_a"),
      TextItem(WholePixelRect, SubPixelClip, "glyph_a"),
      TextItem(NegativeOriginRect, SubPixelClip, "glyph_b") }

\* What the atlas may answer to a request made for display_item.
Answers(display_item) ==
    IF display_item.kind = "Text"
    THEN { << p >> : p \in AtlasPlaces } \cup { AtlasFull }
    ELSE { AtlasFull }

\* The atlas before the pass: any of the assets may already be resident.
Atlases ==
    UNION { [S -> AtlasPlaces] : S \in SUBSET Assets }

----------------------------------------------------------------------------
(* state *)

VARIABLES
    pending_batch,  \* Batcher.pending_batch
    state,          \* "accepting", "finished" (consumed by finish), "panicked"
    batches,        \* what finish returned
    atlas,          \* context.asset_manager.atlas
    requests,       \* the require_asset calls made to the atlas
    added           \* the (context, display item) of every add that returned

vars == << pending_batch, state, batches, atlas, requests, added >>

Init ==
    /\ pending_batch = Batch_new
    /\ state = "accepting"
    /\ batches = << >>
    /\ atlas \in Atlases
    /\ requests = << >>
    /\ added = << >>

Add ==
    /\ state = "accepting"
    /\ Len(added) < MaxItems
    /\ \E context \in Contexts, display_item \in DisplayItems :
        \E answer \in Answers(display_item) :
         \E r \in { Batcher_add(pending_batch, atlas, requests, context,
                                display_item, answer) } :
             /\ pending_batch' = r.batch
             /\ atlas' = r.atlas
             /\ requests' = r.requests
             /\ state' = IF r.returned THEN "accepting" ELSE "panicked"
             /\ added' = IF r.returned
                         THEN Append(added, [context |-> context, item |-> display_item])
                         ELSE added
    /\ UNCHANGED batches

Finish ==
    /\ state = "accepting"
    /\ batches' = Batcher_finish(pending_batch)
    /\ state' = "finished"
    /\ UNCHANGED << pending_batch, atlas, requests, added >>

Next == Add \/ Finish

Spec == Init /\ [][Next]_vars

----------------------------------------------------------------------------
(* properties *)

One == [n |-> 1, d |-> 1]
MinusOne == [n |-> -1, d |-> 1]
Zero == [n |-> 0, d |-> 1]
Half == [n |-> 1, d |-> 2]
MinusHalf == [n |-> -1, d |-> 2]
Dummy == [x |-> Zero, y |-> Zero]

\* A fraction in lowest terms with a positive denominator, computed apart
\* from the model's arithmetic.
Frac(n, d) ==
    CHOOSE q \in { [n |-> i, d |-> j] : i \in -Abs(n)..Abs(n), j \in 1..Abs(d) } :
        /\ q.n * d = n * q.d
        /\ \A j \in 1..(q.d - 1) : (n * j) % d # 0

NumQuads == Len(pending_batch.vertices) \div 4

\* The q-th quad's entries (q from 1) of one of the per-vertex arrays.
QuadOf(array, q) == SubSeq(array, 4 * q - 3, 4 * q)
QuadElements(q) == SubSeq(pending_batch.elements, 6 * q - 5, 6 * q)

\* Index triples over the quad whose first vertex has index tl.
Clockwise(tl) == << tl, tl + 1, tl + 2, tl + 2, tl + 1, tl + 3 >>
Counterclockwise(tl) == << tl, tl + 2, tl + 1, tl + 1, tl + 2, tl + 3 >>

\* Device-space x and y of a pixel count on a target of the given extent.
DeviceCoord(px, extent) == Frac(2 * px - extent, extent)
MinusDeviceCoord(px, extent) == Frac(extent - 2 * px, extent)

\* The corners (top-left, top-right, bottom-left, bottom-right) that the
\* batch holds for rect: each edge at the pixel of its origin, plus, for the
\* far edges, the pixels of its size.
Corners(rect, context, z) ==
    LET W == context.render_target_size.width
        H == context.render_target_size.height
        x0 == DeviceCoord(to_px(rect.origin.x), W)
        x1 == DeviceCoord(to_px(rect.origin.x) + to_px(rect.size.width), W)
        y0 == MinusDeviceCoord(to_px(rect.origin.y), H)
        y1 == MinusDeviceCoord(to_px(rect.origin.y) + to_px(rect.size.height), H)
    IN  << [x |-> x0, y |-> y0, z |-> z], [x |-> x1, y |-> y0, z |-> z],
           [x |-> x0, y |-> y1, z |-> z], [x |-> x1, y |-> y1, z |-> z] >>

AllFour(v) == << v, v, v, v >>

\* The first two quads of the k-th add that returned.
ClipQuadsOf(k) ==
    LET q == 3 * k - 2
        a == added[k]
    IN  /\ \A i \in 1..4 : QuadOf(pending_batch.vertices, q)[i].z = Half
        /\ QuadOf(pending_batch.colors, q) = AllFour("WHITE")
        /\ QuadElements(q) = Clockwise(4 * (q - 1))
        /\ QuadOf(pending_batch.vertices, q + 1)
             = Corners(a.item.base.clip.main, a.context, MinusHalf)
        /\ QuadOf(pending_batch.colors, q + 1) = AllFour("TRANSPARENT_GREEN")
        /\ QuadElements(q + 1) = Clockwise(4 * q)
        /\ \A j \in {q, q + 1} :
              /\ QuadOf(pending_batch.buffer_gamma, j) = AllFour(Dummy)
              /\ QuadOf(pending_batch.texture_coords, j) = AllFour(Dummy)

IsKind(k, kind) == added[k].item.kind = kind

\* C1: after any sequence of add calls (none included) the four per-vertex
\* arrays of the pending batch have one common length, a multiple of 4.
C1_ParallelArrays ==
    /\ Len(pending_batch.colors) = Len(pending_batch.vertices)
    /\ Len(pending_batch.buffer_gamma) = Len(pending_batch.vertices)
    /\ Len(pending_batch.texture_coords) = Len(pending_batch.vertices)
    /\ Len(pending_batch.vertices) % 4 = 0

C1_Witness ==
    /\ Len(added) = 2
    /\ IsKind(1, "Text") /\ IsKind(2, "SolidColor")
    /\ Len(pending_batch.texture_coords) = 24

IsPrefix(old, new) ==
    /\ Len(old) <= Len(new)
    /\ SubSeq(new, 1, Len(old)) = old

\* C2: every index in elements is below len(vertices), in the state that
\* appended it and in every later one, and every step leaves what the five
\* arrays held in place, appending at most.
C2_IndicesValid ==
    /\ [](\A i \in 1..Len(pending_batch.elements) :
              /\ pending_batch.elements[i] >= 0
              /\ pending_batch.elements[i] < Len(pending_batch.vertices))
    /\ [][/\ IsPrefix(pending_batch.vertices, pending_batch'.vertices)
          /\ IsPrefix(pending_batch.colors, pending_batch'.colors)
          /\ IsPrefix(pending_batch.buffer_gamma, pending_batch'.buffer_gamma)
          /\ IsPrefix(pending_batch.texture_coords, pending_batch'.texture_coords)
          /\ IsPrefix(pending_batch.elements, pending_batch'.elements)]_vars

C2_Witness ==
    /\ Len(added) = 2
    /\ Len(pending_batch.elements) = 36
    /\ pending_batch.elements[36] = 23

\* C3: an add of a SolidColor item appends exactly three quads (12 vertices,
\* 18 indices): the clear-clip quad (white, far depth, clockwise), the clip
\* quad over the item's clip rectangle (marker colour, near depth,
\* clockwise) and the content quad over the item's bounds (the item's
\* colour, near depth, counterclockwise), all with dummy shading parameters
\* and dummy texture coordinates.
C3_SolidColorEmission ==
    /\ state # "panicked" =>
          /\ Len(pending_batch.vertices) = 12 * Len(added)
          /\ Len(pending_batch.elements) = 18 * Len(added)
    /\ \A k \in 1..Len(added) :
          IsKind(k, "SolidColor") =>
             /\ ClipQuadsOf(k)
             /\ QuadOf(pending_batch.vertices, 3 * k)
                  = Corners(added[k].item.base.bounds, added[k].context, MinusHalf)
             /\ QuadOf(pending_batch.colors, 3 * k) = AllFour(added[k].item.color)
             /\ QuadOf(pending_batch.buffer_gamma, 3 * k) = AllFour(Dummy)
             /\ QuadOf(pending_batch.texture_coords, 3 * k) = AllFour(Dummy)
             /\ QuadElements(3 * k) = Counterclockwise(4 * (3 * k - 1))

C3_Witness ==
    /\ Len(added) = 2
    /\ IsKind(1, "SolidColor") /\ IsKind(2, "SolidColor")
    /\ added[1].item.color # added[2].item.color
    /\ added[1].context # added[2].context

\* The texture coordinates of an atlas pixel rectangle, corner by corner.
AtlasCorners(place) ==
    LET u0 == Frac(place.origin.x, ATLAS_WIDTH)
        u1 == Frac(place.origin.x + place.size.width, ATLAS_WIDTH)
        v0 == Frac(place.origin.y, ATLAS_HEIGHT)
        v1 == Frac(place.origin.y + place.size.height, ATLAS_HEIGHT)
    IN  << [x |-> u0, y |-> v0], [x |-> u1, y |-> v0],
           [x |-> u0, y |-> v1], [x |-> u1, y |-> v1] >>

\* C4: an add of a Text item appends the same clear-clip and clip quads,
\* then one content quad over the item's bounds: near depth, black, shading
\* parameters (0.5, 0.01), counterclockwise, its texture coordinates not the
\* dummy ones but the atlas rectangle of the asset divided by the atlas
\* width and height, in the order top-left, top-right, bottom-left,
\* bottom-right.
C4_TextEmission ==
    \A k \in 1..Len(added) :
        IsKind(k, "Text") =>
           /\ ClipQuadsOf(k)
           /\ QuadOf(pending_batch.vertices, 3 * k)
                = Corners(added[k].item.base.bounds, added[k].context, MinusHalf)
           /\ QuadOf(pending_batch.colors, 3 * k) = AllFour("BLACK")
           /\ QuadOf(pending_batch.buffer_gamma, 3 * k)
                = AllFour([x |-> Half, y |-> [n |-> 1, d |-> 100]])
           /\ QuadOf(pending_batch.texture_coords, 3 * k) # AllFour(Dummy)
           /\ added[k].item.asset \in DOMAIN atlas
           /\ QuadOf(pending_batch.texture_coords, 3 * k)
                = AtlasCorners(atlas[added[k].item.asset])
           /\ QuadElements(3 * k) = Counterclockwise(4 * (3 * k - 1))

C4_Witness ==
    /\ Len(added) = 2
    /\ IsKind(1, "Text") /\ IsKind(2, "Text")
    /\ added[1].item.asset # added[2].item.asset
    /\ atlas[added[1].item.asset] # atlas[added[2].item.asset]
    /\ Len(pending_batch.texture_coords) = 24

\* C5: finish returns exactly one batch whatever the number n >= 0 of add
\* calls before it, and that batch holds all the geometry: 12 * n vertices.
C5_FinishOneBatch ==
    state = "finished" =>
       /\ Len(batches) = 1
       /\ batches[1] = pending_batch
       /\ Len(batches[1].vertices) = 12 * Len(added)
       /\ Len(batches[1].elements) = 18 * Len(added)

C5_Witness ==
    /\ state = "finished"
    /\ Len(added) = 2
    /\ Len(batches[1].vertices) = 24

\* C6: the geometry of one item is appended atomically: when add fails on a
\* Text item because the atlas cannot take the asset, none of the item's
\* quads is in the pending batch; the batch holds all three quads of an item
\* or none.
C6_AtomicAdd ==
    /\ Len(pending_batch.vertices) % 12 = 0
    /\ state = "panicked" => Len(pending_batch.vertices) = 12 * Len(added)

RECURSIVE AssetsOfTextItems(_)
AssetsOfTextItems(k) ==
    IF k = 0 THEN << >>
    ELSE IF IsKind(k, "Text")
         THEN Append(AssetsOfTextItems(k - 1), added[k].item.asset)
         ELSE AssetsOfTextItems(k - 1)

\* C7: for every Text item the blocking request to the atlas (Retained) is
\* made and answered before the content quad is appended: the quad's texture
\* coordinates are those of an asset the atlas holds, at the place the atlas
\* holds it; and no request is left for after the add call: the requests
\* made are, in order, one per Text item added (and the one that failed,
\* which stopped add before any vertex of the content quad).
C7_RequestBeforeQuad ==
    /\ \A k \in 1..Len(added) :
          IsKind(k, "Text") =>
             /\ added[k].item.asset \in DOMAIN atlas
             /\ pending_batch.texture_coords[12 * k - 3].x
                  = Frac(atlas[added[k].item.asset].origin.x, ATLAS_WIDTH)
             /\ pending_batch.texture_coords[12 * k - 3].y
                  = Frac(atlas[added[k].item.asset].origin.y, ATLAS_HEIGHT)
    /\ \A i \in 1..Len(requests) : requests[i].priority = "Retained"
    /\ state # "panicked" =>
          [i \in 1..Len(requests) |-> requests[i].asset]
             = AssetsOfTextItems(Len(added))
    /\ state = "panicked" =>
          /\ Len(requests) > 0
          /\ [i \in 1..(Len(requests) - 1) |-> requests[i].asset]
                = AssetsOfTextItems(Len(added))
          /\ requests[Len(requests)].asset \notin DOMAIN atlas
          /\ Len(pending_batch.vertices) = 12 * Len(added) + 8

C7_Witness ==
    /\ Len(added) = 2
    /\ IsKind(1, "SolidColor") /\ IsKind(2, "Text")
    /\ Len(requests) = 1
    /\ requests[1].asset = added[2].item.asset

FullTarget(context) ==
    Rect(Point2D(0, 0),
         Size2D(context.render_target_size.width * AU_PER_PX,
                context.render_target_size.height * AU_PER_PX))

\* C8: whatever the (positive) render-target size, the rectangle at (0,0)
\* of the target's size converts to the device corners (-1,-1) and (1,1),
\* and the clear-clip quad's vertices are (-1,1), (1,1), (-1,-1), (1,-1) at
\* the far depth.
C8_ClearClipCoversTarget ==
    /\ \A k \in 1..Len(added) :
          LET r == to_normalized_device_position_rect(FullTarget(added[k].context),
                                                      added[k].context)
          IN  /\ r.origin = [x |-> MinusOne, y |-> MinusOne]
              /\ bottom_right(r) = [x |-> One, y |-> One]
    /\ \A q \in 1..NumQuads :
          q % 3 = 1 =>
             QuadOf(pending_batch.vertices, q)
               = << [x |-> MinusOne, y |-> One, z |-> Half],
                    [x |-> One, y |-> One, z |-> Half],
                    [x |-> MinusOne, y |-> MinusOne, z |-> Half],
                    [x |-> One, y |-> MinusOne, z |-> Half] >>

C8_Witness ==
    /\ Len(added) = 2
    /\ added[1].context.render_target_size.width
         # added[1].context.render_target_size.height
    /\ added[1].context # added[2].context
    /\ NumQuads = 6

\* C9: the index step refers to the last four vertices: the q-th quad's six
\* indices are (TL,TR,BL),(BL,TR,BR) over vertices 4(q-1)..4(q-1)+3 for the
\* clockwise quads (the first two of each add) and (TL,BL,TR),(TR,BL,BR)
\* for the counterclockwise one (the third), and len(elements) is
\* 6 * len(vertices) / 4.
C9_QuadIndices ==
    /\ 4 * Len(pending_batch.elements) = 6 * Len(pending_batch.vertices)
    /\ \A q \in 1..NumQuads :
          QuadElements(q) = IF q % 3 = 0
                            THEN Counterclockwise(4 * (q - 1))
                            ELSE Clockwise(4 * (q - 1))

C9_Witness ==
    /\ NumQuads = 6
    /\ QuadElements(6) = << 20, 22, 21, 21, 22, 23 >>
    /\ QuadElements(5) = << 16, 17, 18, 18, 17, 19 >>

\* The rectangles behind the three quads of the k-th add.
QuadRects(k) ==
    << FullTarget(added[k].context), added[k].item.base.clip.main,
       added[k].item.base.bounds >>

WholePixels(rect) ==
    /\ rect.origin.x % AU_PER_PX = 0 /\ rect.origin.y % AU_PER_PX = 0
    /\ rect.size.width % AU_PER_PX = 0 /\ rect.size.height % AU_PER_PX = 0

\* C10 as claimed: for every rectangle, whole pixels or not, the
\* bottom-right vertex is the position formula applied to the opposite
\* corner origin + size: x = (px(origin.x + width)/W - 0.5) * 2 and
\* y = -((px(origin.y + height)/H - 0.5) * 2).
C10_CornerOfSum ==
    \A k \in 1..Len(added) : \A j \in 1..3 :
        LET rect == QuadRects(k)[j]
            v == pending_batch.vertices[4 * (3 * (k - 1) + j)]
            size == added[k].context.render_target_size
        IN  /\ v.x = DeviceCoord(to_px(rect.origin.x + rect.size.width), size.width)
            /\ v.y = MinusDeviceCoord(to_px(rect.origin.y + rect.size.height),
                                      size.height)

\* C10 amended: the bottom-right vertex is the device position of the origin
\* plus the device size, origin and size each cut to whole pixels on their
\* own: x = ((px(origin.x) + px(width))/W - 0.5) * 2 and
\* y = -(((px(origin.y) + px(height))/H - 0.5) * 2); for a rectangle of
\* whole pixels this is the position formula applied to origin + size.
C10_CornerOfParts ==
    \A k \in 1..Len(added) : \A j \in 1..3 :
        LET rect == QuadRects(k)[j]
            v == pending_batch.vertices[4 * (3 * (k - 1) + j)]
            size == added[k].context.render_target_size
        IN  /\ v.x = DeviceCoord(to_px(rect.origin.x) + to_px(rect.size.width),
                                 size.width)
            /\ v.y = MinusDeviceCoord(to_px(rect.origin.y) + to_px(rect.size.height),
                                      size.height)
            /\ WholePixels(rect) =>
                  /\ v.x = DeviceCoord(to_px(rect.origin.x + rect.size.width),
                                       size.width)
                  /\ v.y = MinusDeviceCoord(to_px(rect.origin.y + rect.size.height),
                                            size.height)

C10_Witness ==
    /\ Len(added) = 2
    /\ WholePixels(added[1].item.base.bounds)
    /\ ~WholePixels(added[2].item.base.bounds)
    /\ to_px(added[2].item.base.bounds.origin.x + added[2].item.base.bounds.size.width)
         # to_px(added[2].item.base.bounds.origin.x)
             + to_px(added[2].item.base.bounds.size.width)

====
